---- MODULE Spec2Model ----
(***************************************************************************)
(* Model of the execution harness run_generated_checker of run_checker.py: *)
(* a validator source is loaded with exec into a fresh module, its entry   *)
(* point is_valid_output is looked up and invoked as (output, input), the  *)
(* returned value is shape-checked and mapped to one JSON verdict record,  *)
(* and any Exception is reported as an error line.  One process makes a    *)
(* sequence of calls; the interpreter state outside the module (builtins)  *)
(* lives as long as the process.                                           *)
(***************************************************************************)
EXTENDS Integers, Sequences, FiniteSets, TLC

\* ------------------------------------------------------------- bounds ----
\* number of run_generated_checker calls made in one process
MaxCalls == 2

\* ------------------------------------------------------ Python values ----
\* a Python value: its type name and its repr
PyNone == [t |-> "NoneType", s |-> "None"]
PyTrue == [t |-> "bool", s |-> "True"]
PyFalse == [t |-> "bool", s |-> "False"]
PyOne == [t |-> "int", s |-> "1"]
PyStr(x) == [t |-> "str", s |-> x]
\* an object json cannot serialize (an exception instance, a set, ...)
PyObj == [t |-> "object", s |-> "ValueError()"]

PyBool(b) == IF b THEN PyTrue ELSE PyFalse

\* truth value testing of `if passed:`
Truthy(v) ==
  CASE v.t = "bool" -> v.s = "True"
    [] v.t = "int" -> v.s # "0"
    [] v.t = "str" -> v.s # ""
    [] v.t = "NoneType" -> FALSE
    [] OTHER -> TRUE

\* ------------------------------------------------------------- JSON ------
JsonNull == [j |-> "null", s |-> ""]

\* json.dumps raises TypeError on a value of a type it does not know
JsonSerializable(v) == v.t \in {"NoneType", "bool", "int", "str"}

\* json.dumps of one value
JsonEncode(v) ==
  CASE v.t = "NoneType" -> JsonNull
    [] v.t = "bool" -> [j |-> (IF v.s = "True" THEN "true" ELSE "false"), s |-> ""]
    [] v.t = "int" -> [j |-> "number", s |-> v.s]
    [] v.t = "str" -> [j |-> "string", s |-> v.s]
    [] OTHER -> [j |-> "unserializable", s |-> v.s]

\* ------------------------------------------------ values a call returns --
\* the return value of is_valid_output: its container type and elements
Tuple3(a, b, c) == [kind |-> "tuple", elems |-> <<a, b, c>>]
Tuple2(a, b) == [kind |-> "tuple", elems |-> <<a, b>>]
Tuple4(a, b, c, d) == [kind |-> "tuple", elems |-> <<a, b, c, d>>]
List3(a, b, c) == [kind |-> "list", elems |-> <<a, b, c>>]
BareBool == [kind |-> "bool", elems |-> <<>>]
BareNone == [kind |-> "NoneType", elems |-> <<>>]
\* nothing returned (yet)
NoResult == [kind |-> "unset", elems |-> <<>>]

\* --------------------------------------------------- validator sources --
\* the texts passed as --input and --output
Inputs == {"i1", "i2"}
Outputs == {"o1", "o2"}

EntryName == "is_valid_output"

\* A validator source (code_str), described by what executing it does:
\*   load  - what exec(code_str, ...) does: "ok" runs to the end, "raise"
\*           raises an Exception (a SyntaxError included), "exit" raises
\*           SystemExit (sys.exit), "hang" never returns;
\*   names - the names the source binds at module level when it loads;
\*   body  - what a call of is_valid_output does;
\*   res   - the value a "const" body returns.
Source(load, names, body, res) ==
  [load |-> load, names |-> names, body |-> body, res |-> res]

\* first elements a validator returns, reason/violation pairs it returns
Firsts == {PyTrue, PyFalse, PyOne, PyNone}
ReasonViolations ==
  { <<PyNone, PyNone>>,
    <<PyStr("too short"), PyStr("output must exceed 10 words")>>,
    <<PyStr("too short"), PyNone>>,
    <<PyObj, PyStr("output must exceed 10 words")>>,
    <<PyStr("too short"), PyObj>> }

ConstResults ==
  { Tuple3(f, rv[1], rv[2]) : f \in Firsts, rv \in ReasonViolations }
  \cup { Tuple2(PyTrue, PyNone),
         Tuple2(PyFalse, PyStr("too short")),
         Tuple4(PyTrue, PyNone, PyNone, PyNone),
         List3(PyTrue, PyNone, PyNone),
         List3(PyFalse, PyStr("too short"), PyStr("output must exceed 10 words")),
         BareBool, BareNone }

EmptySource == Source("ok", {}, "undefined", NoResult)

Validators ==
  { Source("ok", {EntryName}, "const", r) : r \in ConstResults }
  \cup { Source("ok", {EntryName}, b, NoResult) :
           b \in {"echo", "stateful", "probe", "raise", "exit", "hang",
                  "notcallable"} }
  \cup { EmptySource,
         Source("ok", {"helper"}, "undefined", NoResult),
         Source("ok", {EntryName, "leak"}, "const", Tuple3(PyTrue, PyNone, PyNone)),
         Source("raise", {}, "undefined", NoResult),
         Source("exit", {}, "undefined", NoResult),
         Source("hang", {}, "undefined", NoResult) }

\* ------------------------------------------------------- exceptions ------
MissingMsg == "Generated code does not contain is_valid_output function."
MalformedMsg == "is_valid_output must return a tuple: (bool, Optional[str], Optional[str])"
UnpackMsg == "cannot unpack result into (passed, reason, violation)"
NotSerializableMsg == "Object of type ValueError is not JSON serializable"
NotCallableMsg == "int object is not callable"
LoadFaultMsg == "fault raised while the source was executed"
EntryFaultMsg == "fault raised by is_valid_output"
ExitMsg == "sys.exit"

Exc(cls, msg, by) == [cls |-> cls, msg |-> msg, by |-> by]
NoExc == Exc("none", "", "none")

\* `except Exception` catches the subclasses of Exception; SystemExit and
\* KeyboardInterrupt derive from BaseException only
CaughtByExceptException(cls) ==
  cls \in {"ValueError", "TypeError", "RuntimeError", "SyntaxError"}

\* ---------------------------------------------------------- state --------
VARIABLES
  pc,              \* where the current call is: "idle", "exec" (line 9),
                   \* "loaded" (line 10), "invoke" (inside line 13),
                   \* "done" (returned), "escaped" (an exception left the call)
  code_str,        \* the validator source of the current call
  input_text,      \* its input text
  output_text,     \* its output text
  checker_module,  \* the names in checker_module.__dict__
  invoked,         \* the argument pairs is_valid_output was called with
  result,          \* the value is_valid_output returned
  verdicts,        \* the verdict records printed by this call
  errors,          \* the "Error during execution" lines printed by this call
  ret,             \* the value the call returned to its caller
  fault,           \* the exception raised inside the try block, if any
  builtins_seen,   \* an attribute of the interpreter's builtins module
  spin,            \* position of a validator that loops forever
  calls,           \* number of calls started in this process
  prev             \* source, texts and outcome of the previous call

\* the state of the three stage scripts (stage1_extraction.py,
\* stage2_tree_generation.py, stage3_code_generation.py)
VARIABLES
  st_pc,           \* "idle", "filtering" (inside the loop of
                   \* filter_code_verifiable_conditionals), "done" (main
                   \* returned), "halted" (an exception left main)
  st_stage,        \* the stage whose main runs: 1, 2 or 3 (0: none yet)
  oracle_resp,     \* what the oracle answered to the stage's generation call
  returned,        \* what the generation function returned to main
  constraints_in,  \* the list filter_code_verifiable_conditionals iterates
  f_idx,           \* how many of its elements the loop has processed
  kept,            \* its list kept
  asked,           \* the constraints the oracle was asked to assess, in order
  assessed,        \* per processed element, what the oracle said of it
  printed,         \* the lines pretty_print_tree printed
  written,         \* what main wrote to its --out file
  st_fault         \* the exception that left main, "none" if none

hvars == <<pc, code_str, input_text, output_text, checker_module, invoked,
           result, verdicts, errors, ret, fault, builtins_seen, spin, calls,
           prev>>

svars == <<st_pc, st_stage, oracle_resp, returned, constraints_in, f_idx,
           kept, asked, assessed, printed, written, st_fault>>

vars == <<hvars, svars>>

PyUnset == [t |-> "unset", s |-> ""]

\* line 7: types.ModuleType("checker_module"), a module with no names of
\* the source in it
ModuleType == {}

\* the lookup of line 10 left out
HasEntryPointAlways(dict) == TRUE

\* line 10: "is_valid_output" in checker_module.__dict__
HasEntryPoint(dict) == EntryName \in dict

\* line 14 without the length test
IsWellShapedTupleOnly(r) == r.kind = "tuple"

\* line 14 testing for any sequence of three elements
IsWellShapedAnySequence(r) == r.kind \in {"tuple", "list"} /\ Len(r.elems) = 3

\* line 14: isinstance(result, tuple) and len(result) == 3
IsWellShaped(r) == r.kind = "tuple" /\ Len(r.elems) = 3

\* lines 20-24 passing on what the validator supplied
PassedVerdictKeepsValues(reason, violation) ==
  [satisfied |-> JsonEncode(PyTrue), reason |-> JsonEncode(reason),
   violation |-> JsonEncode(violation)]

\* lines 20-24: the record printed when passed is truthy
PassedVerdict(reason, violation) ==
  [satisfied |-> JsonEncode(PyTrue), reason |-> JsonEncode(PyNone),
   violation |-> JsonEncode(PyNone)]

\* lines 28-32 with the two fields exchanged
FailedVerdictSwapped(reason, violation) ==
  [satisfied |-> JsonEncode(PyFalse), reason |-> JsonEncode(violation),
   violation |-> JsonEncode(reason)]

\* lines 28-32: the record printed when passed is falsy
FailedVerdict(reason, violation) ==
  [satisfied |-> JsonEncode(PyFalse), reason |-> JsonEncode(reason),
   violation |-> JsonEncode(violation)]

\* the outcome of a stretch of the try block: what was printed, the
\* exception raised (NoExc if none), the value returned
Outcome(vs, exc, r) == [verdicts |-> vs, exc |-> exc, ret |-> r]

\* lines 14-34: from the value the entry point returned to the return
MapResult(r) ==
  IF ~IsWellShaped(r)
  THEN Outcome(<<>>, Exc("ValueError", MalformedMsg, "harness"), PyUnset)
  ELSE IF r.kind \notin {"tuple", "list"} \/ Len(r.elems) # 3
  THEN \* line 17: the unpacking fails
       Outcome(<<>>, Exc(IF r.kind \in {"tuple", "list"} THEN "ValueError"
                          ELSE "TypeError", UnpackMsg, "harness"), PyUnset)
  ELSE LET passed == r.elems[1]
           reason == r.elems[2]
           violation == r.elems[3]
       IN IF Truthy(passed)
          THEN Outcome(<<PassedVerdict(reason, violation)>>, NoExc, passed)
          ELSE IF JsonSerializable(reason) /\ JsonSerializable(violation)
          THEN Outcome(<<FailedVerdict(reason, violation)>>, NoExc, passed)
          ELSE \* line 33: json.dumps raises before anything is printed
               Outcome(<<>>, Exc("TypeError", NotSerializableMsg, "harness"),
                       PyUnset)

\* line 13: what the body of is_valid_output does when called with
\* (a1, a2) in a module holding the names dict, builtins attribute seen
CallEntry(src, a1, a2, dict, seen) ==
  CASE src.body = "const" ->
         [exc |-> NoExc, result |-> src.res, seen |-> seen]
    [] src.body = "echo" ->
         [exc |-> NoExc, result |-> Tuple3(PyFalse, PyStr(a1), PyStr(a2)),
          seen |-> seen]
    [] src.body = "stateful" ->
         \* seen = getattr(builtins, "_seen", False); builtins._seen = True
         [exc |-> NoExc,
          result |-> Tuple3(PyBool(seen), PyStr("first call"), PyStr("src")),
          seen |-> TRUE]
    [] src.body = "probe" ->
         \* "leak" in globals()
         [exc |-> NoExc,
          result |-> Tuple3(PyBool("leak" \in dict), PyStr("no leak"),
                            PyStr("src")),
          seen |-> seen]
    [] src.body = "raise" ->
         [exc |-> Exc("RuntimeError", EntryFaultMsg, "entry"),
          result |-> NoResult, seen |-> seen]
    [] src.body = "exit" ->
         [exc |-> Exc("SystemExit", ExitMsg, "entry"),
          result |-> NoResult, seen |-> seen]
    [] src.body = "notcallable" ->
         [exc |-> Exc("TypeError", NotCallableMsg, "entry"),
          result |-> NoResult, seen |-> seen]
    [] OTHER ->
         \* the name is not bound: AttributeError is not modelled apart
         [exc |-> Exc("TypeError", NotCallableMsg, "entry"),
          result |-> NoResult, seen |-> seen]

\* ------------------------------------------------ the stage scripts ------
\* longest constraint list the oracle returns
MaxConstraints == 3
\* deepest tree the oracle returns (a lone leaf has depth 1)
MaxDepth == 3

\* a constraint record of CATEGORY_TOOL_SCHEMA (the arrow of the category
\* names is written ->)
Constraint(text, app, cat, src) ==
  [constraint |-> text, application_type |-> app, category |-> cat,
   source |-> src]

SampleConstraints ==
  { Constraint("output is a JSON object", "unconditional",
               "Output -> Specific format constraint", "Return JSON."),
    Constraint("if the input has a URL, cite it", "conditional",
               "Output -> Lexical matching constraint", "If a URL is given, cite it."),
    Constraint("if the input is a question, at most 50 words", "conditional",
               "Output -> Numerical constraint", "Answer questions in 50 words."),
    Constraint("never say foo", "sometimes",
               "Output -> Lexical exclusion constraint", "Do not say foo."),
    Constraint("formal tone", "unconditional",
               "Output -> Qualitative constraint", "Be formal.") }

ConstraintLists ==
  UNION { [1..n -> SampleConstraints] : n \in 0..MaxConstraints }

\* stage1 lines 179-184
CodeVerifiableCategories ==
  { "Output -> Specific format constraint",
    "Output -> Numerical constraint",
    "Output -> Lexical matching constraint",
    "Output -> Lexical exclusion constraint" }

\* a node of the evaluation tree as a Python dict: has is the set of the
\* keys source, scope, children the dict holds (the other keys are always
\* there); a key that is absent has the value "None" or <<>> here
AllKeys == {"source", "scope", "children"}

TreeNode(cond, ok, cat, con, has, src, scope, kids) ==
  [conditional |-> cond, parent_ok |-> ok, constraint_category |-> cat,
   constraint |-> con, has |-> has, source |-> src, scope |-> scope,
   children |-> kids]

\* a leaf: stage2 prompt rule 4 gives it source None and scope None; the
\* tree exchange format lets it omit both keys
Leaf(con, ok, has) ==
  TreeNode(FALSE, ok, "result", con, has, "None", "None", <<>>)

Leaves(ok) ==
  { Leaf("yes", ok, AllKeys), Leaf("no", ok, AllKeys),
    Leaf("no", ok, {"children"}) }

\* a constraint node with its two children
Inner(cond, ok, a, b) ==
  TreeNode(cond, ok, "Output -> Numerical constraint", "at most 50 words",
           AllKeys, "Answer questions in 50 words.", "entire output",
           <<a, b>>)

\* the well-formed trees of depth at most d reached with parent_ok = ok:
\* children[0] is reached with parent_ok true, children[1] with false
RECURSIVE Trees(_, _)
Trees(d, ok) ==
  IF d <= 1 THEN Leaves(ok)
  ELSE Leaves(ok) \cup
       { Inner(d > 2, ok, a, b) :
           a \in Trees(d - 1, TRUE), b \in Trees(d - 1, FALSE) }

NoTree == Leaf("none", TRUE, {})

\* a Python value passing between the oracle functions and main: a list of
\* constraints, the empty dict, a tree, a text or None
Val(kind, items, tree, text) ==
  [kind |-> kind, items |-> items, tree |-> tree, text |-> text]
ValList(items) == Val("list", items, NoTree, "")
ValEmptyDict == Val("emptydict", <<>>, NoTree, "")
ValTree(t) == Val("tree", <<>>, t, "")
ValStr(x) == Val("str", <<>>, NoTree, x)
ValNone == Val("None", <<>>, NoTree, "")
ValUnset == Val("unset", <<>>, NoTree, "")

\* what openai.chat.completions.create and the parsing of its answer do:
\*   "raise"        the call raises (API fault, timeout);
\*   "unparsable"   the arguments are not JSON, json.loads raises;
\*   "no_tool_call" message.tool_calls is None;
\*   "not_object"   the arguments are a JSON array;
\*   "missing"      the arguments are an object without the wanted field;
\*   "null"         the wanted field is null;
\*   "ok"           the wanted field holds items, tree or text
Resp(kind, items, tree, text) ==
  [kind |-> kind, items |-> items, tree |-> tree, text |-> text]

FailureKinds ==
  {"raise", "unparsable", "no_tool_call", "not_object", "missing", "null"}

NoResp == Resp("none", <<>>, NoTree, "")

ClassifyResponses ==
  { Resp(k, <<>>, NoTree, "") : k \in FailureKinds }
  \cup { Resp("ok", l, NoTree, "") : l \in ConstraintLists }

TreeResponses ==
  { Resp(k, <<>>, NoTree, "") : k \in FailureKinds }
  \cup { Resp("ok", <<>>, t, "") : t \in Trees(MaxDepth, TRUE) }

CodeResponses ==
  { Resp(k, <<>>, NoTree, "") : k \in FailureKinds }
  \cup { Resp("ok", <<>>, NoTree, x) :
           x \in {"def is_valid_output(output, input_text): ...", "pass"} }

\* the answers to one assessment call: a failure, or condition_verifiable
\* = text at the top level of the arguments ("flat") or inside the
\* assessment object SINGLE_CONDITION_ASSESS_TOOL_SCHEMA asks for ("nested")
AssessResponses ==
  { Resp(k, <<>>, NoTree, "") :
      k \in {"raise", "unparsable", "no_tool_call", "not_object", "missing"} }
  \cup { Resp(k, <<>>, NoTree, b) :
           k \in {"flat", "nested"}, b \in {"true", "false"} }

NoPrev ==
  [valid |-> FALSE, code_str |-> EmptySource, input_text |-> "i1",
   output_text |-> "o1", verdicts |-> <<>>, errors |-> <<>>, ret |-> PyUnset]

Init ==
  /\ pc = "idle"
  /\ code_str = EmptySource
  /\ input_text = "i1"
  /\ output_text = "o1"
  /\ checker_module = ModuleType
  /\ invoked = <<>>
  /\ result = NoResult
  /\ verdicts = <<>>
  /\ errors = <<>>
  /\ ret = PyUnset
  /\ fault = NoExc
  /\ builtins_seen = FALSE
  /\ spin = 0
  /\ calls = 0
  /\ prev = NoPrev
  /\ st_pc = "idle"
  /\ st_stage = 0
  /\ oracle_resp = NoResp
  /\ returned = ValUnset
  /\ constraints_in = <<>>
  /\ f_idx = 0
  /\ kept = <<>>
  /\ asked = <<>>
  /\ assessed = <<>>
  /\ printed = <<>>
  /\ written = ValUnset
  /\ st_fault = "none"

\* lines 36-38 for an exception e raised inside the try block, after the
\* verdicts vs were printed: an Exception is reported and the call returns
\* False, anything else leaves the call
Raise(e, vs) ==
  /\ fault' = e
  /\ verdicts' = vs
  /\ IF CaughtByExceptException(e.cls)
     THEN /\ errors' = Append(errors, e.msg)
          /\ ret' = PyFalse
          /\ pc' = "done"
     ELSE /\ errors' = errors
          /\ ret' = ret
          /\ pc' = "escaped"

\* lines 6-7: a call starts
Call(c, i, o) ==
  /\ pc = "idle"
  /\ calls < MaxCalls
  /\ calls' = calls + 1
  /\ code_str' = c
  /\ input_text' = i
  /\ output_text' = o
  /\ checker_module' = ModuleType
  /\ invoked' = <<>>
  /\ result' = NoResult
  /\ verdicts' = <<>>
  /\ errors' = <<>>
  /\ ret' = PyUnset
  /\ fault' = NoExc
  /\ pc' = "exec"
  /\ UNCHANGED <<builtins_seen, spin, prev>>
  /\ UNCHANGED svars

\* line 9: exec(code_str, checker_module.__dict__) comes to an end
ExecSource ==
  /\ pc = "exec"
  /\ code_str.load # "hang"
  /\ CASE code_str.load = "ok" ->
            /\ checker_module' = checker_module \cup code_str.names
            /\ pc' = "loaded"
            /\ UNCHANGED <<verdicts, errors, ret, fault>>
       [] code_str.load = "raise" ->
            /\ Raise(Exc("SyntaxError", LoadFaultMsg, "load"), verdicts)
            /\ UNCHANGED checker_module
       [] OTHER ->
            /\ Raise(Exc("SystemExit", ExitMsg, "load"), verdicts)
            /\ UNCHANGED checker_module
  /\ UNCHANGED <<code_str, input_text, output_text, invoked, result,
                 builtins_seen, spin, calls, prev>>
  /\ UNCHANGED svars

\* line 13 with the two texts exchanged
EntryArgsSwapped(inp, out) == <<inp, out>>

\* line 13: the positional arguments (output_text, input_text)
EntryArgs(inp, out) == <<out, inp>>

\* lines 10-13: the entry point is looked up and called as (output, input)
InvokeEntry ==
  /\ pc = "loaded"
  /\ IF ~HasEntryPoint(checker_module)
     THEN /\ Raise(Exc("ValueError", MissingMsg, "harness"), verdicts)
          /\ UNCHANGED invoked
     ELSE /\ invoked' = Append(invoked, EntryArgs(input_text, output_text))
          /\ pc' = "invoke"
          /\ UNCHANGED <<verdicts, errors, ret, fault>>
  /\ UNCHANGED <<code_str, input_text, output_text, checker_module, result,
                 builtins_seen, spin, calls, prev>>
  /\ UNCHANGED svars

\* lines 13-38: the entry point comes to an end, its value is mapped
EntryCompletes ==
  /\ pc = "invoke"
  /\ code_str.body # "hang"
  /\ LET a == invoked[Len(invoked)]
         c == CallEntry(code_str, a[1], a[2], checker_module, builtins_seen)
         m == MapResult(c.result)
     IN /\ builtins_seen' = c.seen
        /\ result' = c.result
        /\ IF c.exc # NoExc THEN Raise(c.exc, verdicts)
           ELSE IF m.exc # NoExc THEN Raise(m.exc, m.verdicts)
           ELSE /\ verdicts' = m.verdicts
                /\ ret' = m.ret
                /\ pc' = "done"
                /\ UNCHANGED <<errors, fault>>
  /\ UNCHANGED <<code_str, input_text, output_text, checker_module, invoked,
                 spin, calls, prev>>
  /\ UNCHANGED svars

\* a source or an entry point that loops forever makes one more iteration;
\* nothing in lines 6-38 interrupts it
ValidatorLoops ==
  /\ \/ pc = "exec" /\ code_str.load = "hang"
     \/ pc = "invoke" /\ code_str.body = "hang"
  /\ spin' = 1 - spin
  /\ UNCHANGED <<pc, code_str, input_text, output_text, checker_module,
                 invoked, result, verdicts, errors, ret, fault, builtins_seen,
                 calls, prev>>
  /\ UNCHANGED svars

\* lines 34/38: the caller has the returned value and may call again
Return ==
  /\ pc = "done"
  /\ pc' = "idle"
  /\ prev' = [valid |-> TRUE, code_str |-> code_str,
              input_text |-> input_text, output_text |-> output_text,
              verdicts |-> verdicts, errors |-> errors, ret |-> ret]
  /\ UNCHANGED <<code_str, input_text, output_text, checker_module, invoked,
                 result, verdicts, errors, ret, fault, builtins_seen, spin,
                 calls>>
  /\ UNCHANGED svars

Next ==
  \/ \E c \in Validators, i \in Inputs, o \in Outputs : Call(c, i, o)
  \/ ExecSource
  \/ InvokeEntry
  \/ EntryCompletes
  \/ ValidatorLoops
  \/ Return

Spec == Init /\ [][Next]_vars

\* the interpreter runs the single thread as long as it has a step to take
LiveSpec == Spec /\ WF_vars(Next)

\* ------------------------------------------- stage 1: extraction --------
\* stage1 lines 131-148, classify_prompt_constraints: the value returned
\* for an answer of the oracle; arguments.get("constraints", []) hands a
\* null field back as None
ClassifyReturn(resp) ==
  CASE resp.kind = "ok" -> ValList(resp.items)
    [] resp.kind = "null" -> ValNone
    [] OTHER -> ValList(<<>>)

\* stage1 lines 177-185, filter_code_verifiable_constraints
FilterCodeVerifiableConstraints(constraints) ==
  SelectSeq(constraints, LAMBDA c : c.category \in CodeVerifiableCategories)

\* stage1 lines 150-175, assess_single_conditional_bool: the boolean
\* returned for an answer of the oracle; line 172 looks condition_verifiable
\* up at the top level of the arguments only
AssessReturn(resp) == resp.kind = "flat" /\ resp.text = "true"

\* stage1 lines 225-236: main calls classify_prompt_constraints and
\* filter_code_verifiable_constraints and enters
\* filter_code_verifiable_conditionals
Stage1Start(resp) ==
  /\ st_pc = "idle"
  /\ st_stage' = 1
  /\ oracle_resp' = resp
  /\ returned' = ClassifyReturn(resp)
  /\ IF ClassifyReturn(resp).kind # "list"
     THEN \* line 185 iterates over None
          /\ st_pc' = "halted"
          /\ st_fault' = "TypeError"
          /\ constraints_in' = <<>>
     ELSE /\ st_pc' = "filtering"
          /\ st_fault' = "none"
          /\ constraints_in' =
               FilterCodeVerifiableConstraints(ClassifyReturn(resp).items)
  /\ f_idx' = 0
  /\ kept' = <<>>
  /\ asked' = <<>>
  /\ assessed' = <<>>
  /\ printed' = <<>>
  /\ written' = ValUnset
  /\ UNCHANGED hvars

\* stage1 lines 194-205: one iteration of the loop of
\* filter_code_verifiable_conditionals, the oracle answering r when asked
FilterStep(r) ==
  /\ st_pc = "filtering"
  /\ f_idx < Len(constraints_in)
  /\ LET c == constraints_in[f_idx + 1]
     IN CASE c.application_type = "unconditional" ->
               /\ kept' = Append(kept, c)
               /\ assessed' = Append(assessed, NoResp)
               /\ asked' = asked
          [] c.application_type = "conditional" ->
               /\ asked' = Append(asked, c)
               /\ assessed' = Append(assessed, r)
               /\ kept' = IF AssessReturn(r) THEN Append(kept, c) ELSE kept
          [] OTHER ->
               /\ kept' = kept
               /\ assessed' = Append(assessed, NoResp)
               /\ asked' = asked
  /\ f_idx' = f_idx + 1
  /\ UNCHANGED <<st_pc, st_stage, oracle_resp, returned, constraints_in,
                 printed, written, st_fault>>
  /\ UNCHANGED hvars

\* stage1 lines 206, 238-240: the loop is over, main writes kept
Stage1Write ==
  /\ st_pc = "filtering"
  /\ f_idx = Len(constraints_in)
  /\ written' = ValList(kept)
  /\ st_pc' = "done"
  /\ UNCHANGED <<st_stage, oracle_resp, returned, constraints_in, f_idx,
                 kept, asked, assessed, printed, st_fault>>
  /\ UNCHANGED hvars

\* --------------------------------------- stage 2: tree generation --------
\* stage2 lines 95-113, generate_evaluation_tree
TreeReturn(resp) ==
  CASE resp.kind = "ok" -> ValTree(resp.tree)
    [] resp.kind = "null" -> ValNone
    [] OTHER -> ValEmptyDict

\* stage2 line 117 printing the corner for every node
BranchAlwaysCorner(is_last) == "CORNER"

\* stage2 line 117: the corner glyph U+2514 for a last child, the tee
\* glyph U+251C for an earlier sibling
Branch(is_last) == IF is_last THEN "CORNER" ELSE "TEE"

\* stage2 line 129 taking the first child for the last
IsLastChildFirst(idx, n) == idx = 1

\* stage2 line 129: idx == len(children) - 1, indices counted from 1 here
IsLastChild(idx, n) == idx = n

\* stage2 lines 119-123: the line of a node; prefix is the sequence of
\* four-column units ("BLANK": four spaces, "BAR": a bar and three spaces)
TreeLine(node, prefix, is_last) ==
  [prefix |-> prefix, branch |-> Branch(is_last),
   tag |-> IF node.conditional THEN "[COND]" ELSE "[UNCOND]",
   parent_met |-> node.parent_ok,
   constraint_category |-> node.constraint_category,
   scope |-> node.scope, constraint |-> node.constraint,
   source |-> node.source]

\* stage2 lines 115-129, pretty_print_tree: the lines printed and the
\* exception raised ("none" if none); node['scope'] and node['source']
\* raise KeyError on a dict without the key, node.get("children", [])
\* does not
RECURSIVE PrettyPrintTree(_, _, _)
RECURSIVE PrintChildren(_, _, _)
PrettyPrintTree(node, prefix, is_last) ==
  IF ~({"scope", "source"} \subseteq node.has)
  THEN [lines |-> <<>>, fault |-> "KeyError"]
  ELSE LET children == IF "children" \in node.has THEN node.children
                       ELSE <<>>
           new_prefix == Append(prefix, IF is_last THEN "BLANK" ELSE "BAR")
           below == PrintChildren(children, 1, new_prefix)
       IN [lines |-> <<TreeLine(node, prefix, is_last)>> \o below.lines,
           fault |-> below.fault]

\* stage2 lines 128-129: the loop over the children from index idx on
PrintChildren(children, idx, new_prefix) ==
  IF idx > Len(children)
  THEN [lines |-> <<>>, fault |-> "none"]
  ELSE LET one == PrettyPrintTree(children[idx], new_prefix,
                                  IsLastChild(idx, Len(children)))
       IN IF one.fault # "none" THEN one
          ELSE LET more == PrintChildren(children, idx + 1, new_prefix)
               IN [lines |-> one.lines \o more.lines, fault |-> more.fault]

\* stage2 lines 145-154: main calls generate_evaluation_tree, writes the
\* tree and previews it when it is truthy
Stage2Main(resp) ==
  /\ st_pc = "idle"
  /\ st_stage' = 2
  /\ oracle_resp' = resp
  /\ returned' = TreeReturn(resp)
  /\ written' = TreeReturn(resp)
  /\ IF TreeReturn(resp).kind = "tree"
     THEN LET pp == PrettyPrintTree(TreeReturn(resp).tree, <<>>, TRUE)
          IN /\ printed' = pp.lines
             /\ st_fault' = pp.fault
             /\ st_pc' = IF pp.fault = "none" THEN "done" ELSE "halted"
     ELSE /\ printed' = <<>>
          /\ st_fault' = "none"
          /\ st_pc' = "done"
  /\ constraints_in' = <<>>
  /\ f_idx' = 0
  /\ kept' = <<>>
  /\ asked' = <<>>
  /\ assessed' = <<>>
  /\ UNCHANGED hvars

\* --------------------------------------- stage 3: code generation --------
\* stage3 lines 78-95, generate_checker_code
CodeReturn(resp) ==
  CASE resp.kind = "ok" -> ValStr(resp.text)
    [] resp.kind = "null" -> ValNone
    [] OTHER -> ValStr("")

\* stage3 lines 111-116: main calls generate_checker_code and writes the
\* source; f.write raises TypeError on a value that is not a str
Stage3Main(resp) ==
  /\ st_pc = "idle"
  /\ st_stage' = 3
  /\ oracle_resp' = resp
  /\ returned' = CodeReturn(resp)
  /\ IF CodeReturn(resp).kind = "str"
     THEN /\ written' = CodeReturn(resp)
          /\ st_fault' = "none"
          /\ st_pc' = "done"
     ELSE /\ written' = ValUnset
          /\ st_fault' = "TypeError"
          /\ st_pc' = "halted"
  /\ printed' = <<>>
  /\ constraints_in' = <<>>
  /\ f_idx' = 0
  /\ kept' = <<>>
  /\ asked' = <<>>
  /\ assessed' = <<>>
  /\ UNCHANGED hvars

\* the script's process is over and nothing of it is left in memory; the
\* next script starts in a new process
StageExit ==
  /\ st_pc \in {"done", "halted"}
  /\ st_pc' = "idle"
  /\ st_stage' = 0
  /\ oracle_resp' = NoResp
  /\ returned' = ValUnset
  /\ constraints_in' = <<>>
  /\ f_idx' = 0
  /\ kept' = <<>>
  /\ asked' = <<>>
  /\ assessed' = <<>>
  /\ printed' = <<>>
  /\ written' = ValUnset
  /\ st_fault' = "none"
  /\ UNCHANGED hvars

\* the answers the oracle can give to the script that is about to start
AnswersTo(responses) == IF st_pc = "idle" THEN responses ELSE {}

StageNext ==
  \/ \E resp \in AnswersTo(ClassifyResponses) : Stage1Start(resp)
  \/ \E r \in AssessResponses : FilterStep(r)
  \/ Stage1Write
  \/ \E resp \in AnswersTo(TreeResponses) : Stage2Main(resp)
  \/ \E resp \in CodeResponses : Stage3Main(resp)
  \/ StageExit

StageSpec == Init /\ [][StageNext]_vars

\* ------------------------------------------------------------ claims ----
\* the entry point returned a tuple of three elements
ReturnedTuple3 == result.kind = "tuple" /\ Len(result.elems) = 3

JsonTrue == [j |-> "true", s |-> ""]
JsonFalse == [j |-> "false", s |-> ""]

\* C1: when the entry point returns a 3-tuple whose first element is true,
\* the call prints exactly the verdict {satisfied: true, reason: null,
\* violation: null} and no error, whatever stands in positions 2 and 3.
C1_TrueDiscardsValues ==
  (pc = "done" /\ ReturnedTuple3 /\ Truthy(result.elems[1]))
    => /\ verdicts = <<[satisfied |-> JsonTrue, reason |-> JsonNull,
                        violation |-> JsonNull]>>
       /\ errors = <<>>

C1_Witness ==
  /\ pc = "done"
  /\ result = Tuple3(PyTrue, PyStr("too short"), PyObj)
  /\ Len(verdicts) = 1

\* C2 (as stated): when the entry point returns (false, reason,
\* violation), the call prints exactly one verdict {satisfied: false,
\* reason, violation} carrying the returned values.
C2_FalseVerbatim ==
  (pc = "done" /\ ReturnedTuple3 /\ ~Truthy(result.elems[1]))
    => verdicts = <<[satisfied |-> JsonFalse,
                     reason |-> JsonEncode(result.elems[2]),
                     violation |-> JsonEncode(result.elems[3])]>>

\* C2 (amended): when the entry point returns (false, reason, violation)
\* and json can serialize both values, the call prints exactly one verdict
\* {satisfied: false, reason, violation} carrying them unchanged and no
\* error; when one of them cannot be serialized it prints no verdict,
\* reports one error and returns False.
C2_FalseVerbatimIfSerializable ==
  (pc = "done" /\ ReturnedTuple3 /\ ~Truthy(result.elems[1]))
    => IF JsonSerializable(result.elems[2]) /\ JsonSerializable(result.elems[3])
       THEN /\ verdicts = <<[satisfied |-> JsonFalse,
                             reason |-> JsonEncode(result.elems[2]),
                             violation |-> JsonEncode(result.elems[3])]>>
            /\ errors = <<>>
       ELSE /\ verdicts = <<>>
            /\ errors = <<NotSerializableMsg>>
            /\ ret = PyFalse

C2_Witness ==
  /\ pc = "done"
  /\ result = Tuple3(PyFalse, PyStr("too short"),
                     PyStr("output must exceed 10 words"))
  /\ verdicts = <<[satisfied |-> JsonFalse,
                   reason |-> [j |-> "string", s |-> "too short"],
                   violation |-> [j |-> "string",
                                  s |-> "output must exceed 10 words"]]>>

\* C3: a call that is over has produced exactly one of a verdict record and
\* an error report: never both, never neither.
C3_ExactlyOneOutcome ==
  (pc \in {"done", "escaped"}) => Len(verdicts) + Len(errors) = 1

\* C4: when the source loads without binding is_valid_output (the empty
\* source included), the entry point is never invoked, no verdict is
\* printed, no exception leaves the call, and the call ends with the
\* missing-entry-point error and the value False.
C4_MissingEntryPoint ==
  (code_str.load = "ok" /\ EntryName \notin code_str.names)
    => /\ invoked = <<>>
       /\ verdicts = <<>>
       /\ pc \notin {"invoke", "escaped"}
       /\ (pc = "done" => errors = <<MissingMsg>> /\ ret = PyFalse)

C4_Witness ==
  /\ pc = "done"
  /\ code_str = EmptySource
  /\ errors = <<MissingMsg>>
  /\ ret = PyFalse

\* C5: a fault raised while the source is loaded or while the entry point
\* runs never leaves the call: the call reports one error, returns False
\* and prints no verdict.
C5_FaultsCaptured ==
  (fault.by \in {"load", "entry"})
    => /\ pc # "escaped"
       /\ verdicts = <<>>
       /\ Len(errors) = 1
       /\ ret = PyFalse

\* C6: when the entry point returns a value that is not a sequence of three
\* elements (a 2-tuple, a 4-tuple, a bare boolean, None), the call reports
\* the malformed-contract error, returns False and prints no verdict.
C6_MalformedShape ==
  (pc = "done" /\ result # NoResult
     /\ (result.kind \notin {"tuple", "list"} \/ Len(result.elems) # 3))
    => /\ errors = <<MalformedMsg>>
       /\ ret = PyFalse
       /\ verdicts = <<>>

C6_Witness ==
  /\ pc = "done"
  /\ result = Tuple2(PyFalse, PyStr("too short"))
  /\ errors = <<MalformedMsg>>

\* C7 (as stated): a returned sequence of exactly three elements, tuple or
\* list, is accepted; only a value of another shape is the
\* malformed-contract error.
C7_AcceptsAnySequence3 ==
  (pc = "done" /\ result # NoResult)
    => (errors = <<MalformedMsg>>
          <=> ~(result.kind \in {"tuple", "list"} /\ Len(result.elems) = 3))

\* C7 (amended): exactly the tuples of three elements are accepted: a
\* 3-tuple is never the malformed-contract error, and it is mapped to one
\* verdict whenever its first element is truthy or json can serialize its
\* reason and violation; every other returned value, a list of three
\* elements included, is the malformed-contract error with no verdict.
C7_AcceptsTuple3Only ==
  (pc = "done" /\ result # NoResult)
    => IF ReturnedTuple3
       THEN /\ errors # <<MalformedMsg>>
            /\ (Truthy(result.elems[1])
                  \/ (JsonSerializable(result.elems[2])
                        /\ JsonSerializable(result.elems[3])))
                 => (Len(verdicts) = 1 /\ errors = <<>>)
       ELSE /\ errors = <<MalformedMsg>>
            /\ verdicts = <<>>

C7_Witness ==
  /\ pc = "done"
  /\ result = List3(PyTrue, PyNone, PyNone)
  /\ errors = <<MalformedMsg>>
  /\ verdicts = <<>>

\* C8: the outcome of a call is a function of its source, input and output
\* alone: a call with the source and texts of the call before it ends with
\* the same verdicts, errors and returned value.
C8_OutcomeFunctionOfCall ==
  (pc = "done" /\ prev.valid /\ prev.code_str = code_str
     /\ prev.input_text = input_text /\ prev.output_text = output_text)
    => /\ prev.verdicts = verdicts
       /\ prev.errors = errors
       /\ prev.ret = ret

\* C9: every call that has started comes to an end.
C9_EveryCallTerminates ==
  (pc = "exec") ~> (pc \in {"done", "escaped"})

\* C10: every verdict printed obeys the ValidationVerdict invariant:
\* satisfied true has reason and violation null, satisfied false has a
\* reason that is not null.
C10_VerdictInvariant ==
  \A k \in 1..Len(verdicts) :
    /\ verdicts[k].satisfied = JsonTrue
         => (verdicts[k].reason = JsonNull /\ verdicts[k].violation = JsonNull)
    /\ verdicts[k].satisfied = JsonFalse => verdicts[k].reason # JsonNull


\* C11: the value a call returns is a boolean: it is the satisfied field of
\* the verdict the call printed, and False when the call reported an error,
\* whatever first element the validator returned.
C11_ReturnsBoolean ==
  (pc = "done")
    => /\ ret.t = "bool"
       /\ Len(verdicts) = 1 => JsonEncode(ret) = verdicts[1].satisfied
       /\ errors # <<>> => ret = PyFalse

\* C12: the entry point is called with the output text as its first and the
\* input text as its second argument: it is invoked once with exactly
\* (output_text, input_text), and a validator that hands its two arguments
\* back as reason and violation has the output text printed as reason and
\* the input text as violation.
C12_OutputThenInput ==
  /\ invoked # <<>> => invoked = << <<output_text, input_text>> >>
  /\ (pc = "done" /\ code_str.body = "echo")
       => verdicts = <<[satisfied |-> JsonFalse,
                        reason |-> [j |-> "string", s |-> output_text],
                        violation |-> [j |-> "string", s |-> input_text]]>>

C12_Witness ==
  /\ pc = "done"
  /\ code_str.body = "echo"
  /\ input_text = "i2"
  /\ output_text = "o1"
  /\ Len(verdicts) = 1
  /\ verdicts[1].reason.s = "o1"


\* the value each generation function returns when the oracle fails: []
\* for classify_prompt_constraints, {} for generate_evaluation_tree, "" for
\* generate_checker_code
FailedValue(stage) ==
  CASE stage = 1 -> ValList(<<>>)
    [] stage = 2 -> ValEmptyDict
    [] OTHER -> ValStr("")

\* C13: an oracle failure (raised fault, timeout, malformed response,
\* missing field) is localized: the generation function returns its
\* empty value and the stage that called it runs to its end, no exception
\* leaving main.
C13_OracleFailuresLocalized ==
  (st_stage # 0 /\ oracle_resp.kind \in FailureKinds)
    => /\ returned = FailedValue(st_stage)
       /\ st_pc # "halted"

\* the nodes of a tree in depth-first pre-order, each with its depth and
\* whether it is the last child of its parent (the root counts as last)
RECURSIVE PreOrder(_, _, _)
RECURSIVE PreOrderFrom(_, _, _)
PreOrder(n, depth, last) ==
  <<[node |-> n, depth |-> depth, last |-> last]>>
    \o PreOrderFrom(n.children, 1, depth + 1)

PreOrderFrom(kids, i, depth) ==
  IF i > Len(kids) THEN <<>>
  ELSE PreOrder(kids[i], depth, i = Len(kids))
         \o PreOrderFrom(kids, i + 1, depth)

\* the line is the line of the node e: its fields, one indentation unit
\* per level, the corner for a last child and the tee for an earlier one
LineOf(line, e) ==
  /\ line.constraint = e.node.constraint
  /\ line.constraint_category = e.node.constraint_category
  /\ line.parent_met = e.node.parent_ok
  /\ line.scope = e.node.scope
  /\ line.source = e.node.source
  /\ line.tag = (IF e.node.conditional THEN "[COND]" ELSE "[UNCOND]")
  /\ Len(line.prefix) = e.depth
  /\ line.branch = (IF e.last THEN "CORNER" ELSE "TEE")

HasSourceAndScope(n) == {"source", "scope"} \subseteq n.has

\* the number of nodes at the head of the pre-order po that hold the keys
\* source and scope
RECURSIVE CompleteHead(_, _)
CompleteHead(po, i) ==
  IF i > Len(po) \/ ~HasSourceAndScope(po[i].node) THEN i - 1
  ELSE CompleteHead(po, i + 1)

Stage2Previewed == st_stage = 2 /\ returned.kind = "tree"

\* C14 (as stated): every well-formed tree of the exchange format, leaves
\* that omit source and scope included, is rendered without fault, one
\* line per node in depth-first pre-order with the corner on last children
\* and the root and the tee on earlier siblings.
C14_RendersExchangeTrees ==
  Stage2Previewed
    => LET po == PreOrder(returned.tree, 0, TRUE)
       IN /\ st_fault = "none"
          /\ Len(printed) = Len(po)
          /\ \A i \in 1..Len(po) : LineOf(printed[i], po[i])

\* C14 (amended): a well-formed tree all of whose nodes hold the keys
\* source and scope is rendered without fault, one line per node in
\* depth-first pre-order with the corner on last children and the root and
\* the tee on earlier siblings, and is left as it was; on a tree with a
\* node that omits source or scope exactly the lines of the nodes before
\* the first such node in pre-order are printed and KeyError leaves the
\* function.
C14_RendersSchemaTrees ==
  Stage2Previewed
    => LET po == PreOrder(returned.tree, 0, TRUE)
           k == CompleteHead(po, 1)
       IN /\ Len(printed) = k
          /\ \A i \in 1..k : LineOf(printed[i], po[i])
          /\ IF k = Len(po)
             THEN st_fault = "none" /\ st_pc = "done"
             ELSE st_fault = "KeyError" /\ st_pc = "halted"
          /\ returned.tree = oracle_resp.tree
          /\ written = ValTree(oracle_resp.tree)

C14_Witness ==
  /\ Stage2Previewed
  /\ st_pc = "done"
  /\ Len(printed) = 7
  /\ printed[2].branch = "TEE"
  /\ printed[4].branch = "CORNER"
  /\ Len(printed[4].prefix) = 2

\* the oracle said of element i that its condition is code-verifiable
AssessedTrue(i) ==
  assessed[i].kind \in {"flat", "nested"} /\ assessed[i].text = "true"

\* the elements of constraints_in from index i on that are unconditional,
\* or conditional and assessed true
RECURSIVE ExpectedKept(_)
ExpectedKept(i) ==
  IF i > Len(constraints_in) THEN <<>>
  ELSE LET c == constraints_in[i]
           keep == \/ c.application_type = "unconditional"
                   \/ c.application_type = "conditional" /\ AssessedTrue(i)
       IN (IF keep THEN <<c>> ELSE <<>>) \o ExpectedKept(i + 1)

\* C16: filter_code_verifiable_conditionals returns, in input order, exactly
\* the constraints that are unconditional or conditional with an oracle
\* assessment of true; it asks the oracle once for each conditional
\* constraint and for no other, and processes every element whatever the
\* assessments before it were.
C16_KeepsAssessedTrue ==
  (st_stage = 1 /\ st_pc = "done")
    => /\ Len(assessed) = Len(constraints_in)
       /\ asked = SelectSeq(constraints_in,
                            LAMBDA c : c.application_type = "conditional")
       /\ kept = ExpectedKept(1)
       /\ written = ValList(kept)

====
